---- MODULE Spec2Model ----
(***************************************************************************)
(* Bidding / settlement engine of the auction backend:                     *)
(*   BidsService.placeBid            (bids.service, src/unnamed/part_012)  *)
(*   AuctionSchedulerService         (part_016 and                         *)
(*                                    src/auctions/auction-scheduler...)   *)
(*   AuctionEndService               (src/auctions/auction-end.service.ts) *)
(*   NotificationsService            (src/notifications/...service.ts)     *)
(*   SseService, streamNotifications (src/unnamed/part_020, part_022)      *)
(* The store is PostgreSQL behind Prisma.  No call site asks for an        *)
(* isolation level, so every statement runs READ COMMITTED: a read sees    *)
(* the rows committed when the statement starts, a write becomes visible   *)
(* at commit, and only the unique indexes of the migrations constrain the  *)
(* tables.  Each await of a handler is one atomic step of the model.       *)
(***************************************************************************)
EXTENDS Integers, Sequences, FiniteSets, Bags, TLC

(* ------------------------------ bounds -------------------------------- *)
\* model units per currency unit: amounts are DECIMAL(10,2), so amounts
\* strictly between P and P + 1 exist
Unit == 2
MaxAmount == 6
MaxTime == 2

minIncrement == 1

Auctions == {"a1"}
\* the ids of the specification with two due jobs; the tables of a
\* specification are functions on its ids
TwoAuctions == {"a1", "a2"}
Bidders == {"u1", "u2", "u3"}
Seller == "s1"
Users == Bidders \cup {Seller}
\* the callers of the placeBid specification: two bidders and the seller
BidUsers == {"u1", "u2", Seller}
Procs == {"p1", "p2"}
\* scheduler processes, or cron ticks that overlap
Sweepers == {"w1", "w2"}
Updaters == {"x1", "x2"}
\* the responses of GET /notifications/stream requests
Clients == {"c1", "c2"}
\* the two snapshots of AuctionSchedulerService.executeJob:
\* part_016 settles and then marks the job EXECUTED,
\* auction-scheduler.service.ts marks it EXECUTED and then settles
Variants == {"settleThenMark", "markThenSettle"}
Amounts == 1..MaxAmount
Times == 0..MaxTime

NoAuction == [exists |-> FALSE]
NoJob == [exists |-> FALSE]
NULL == 0
None == [kind |-> "none"]

VARIABLES
  now,            \* the clock, new Date()
  auctions,       \* table auctions: id -> row
  bids,           \* table bids: set of rows
  jobs,           \* table scheduled_jobs: auctionId -> row
  notifications,  \* table notifications: bag of rows (no unique index)
  bidProc,        \* each placeBid call: where it stands, or how it ended
  maxAccepted,    \* history: highest amount among the accepted bids
  variant,        \* which snapshot of the scheduler runs
  sweep,          \* each processScheduledJobs run: its due jobs and position
  upd,            \* the updateAuction / createAuction calls in flight
  hist,           \* history of the jobs, per auction
  connections,    \* SseService.connections: userId -> SseConnection[]
  connKeys,       \* the keys of SseService.connections
  stream          \* each client's GET /notifications/stream request

dbVars == <<auctions, bids, jobs, notifications>>
bidVars == <<bidProc, maxAccepted>>
schedVars == <<variant, sweep, upd, hist>>
sseVars == <<connections, connKeys, stream>>
vars == <<now, auctions, bids, jobs, notifications, bidProc, maxAccepted,
          variant, sweep, upd, hist, connections, connKeys, stream>>

(* --------------------------- pure functions --------------------------- *)
SetMax(S) == CHOOSE x \in S : \A y \in S : y <= x

BidsOf(a) == {b \in bids : b.auctionId = a}

\* findUnique(... include bids orderBy amount desc take 1): the auction row
\* with its top bid only
TopBids(a) ==
  IF BidsOf(a) = {} THEN {}
  ELSE {CHOOSE b \in BidsOf(a) : \A c \in BidsOf(a) : c.amount <= b.amount}

calculateCurrentPrice(startingPrice, bs) ==
  IF bs = {} THEN startingPrice
  ELSE SetMax({b.amount : b \in bs})

\* the comparison with the increment left out
isValidBidAmountNoIncrement(bidAmount, currentPrice) ==
  bidAmount > currentPrice

isValidBidAmount(bidAmount, currentPrice) ==
  bidAmount > currentPrice /\ bidAmount >= currentPrice + minIncrement * Unit

\* the cutoff written with <=
isAuctionActiveInclusive(endTime) == now <= endTime

isAuctionActive(endTime) == now < endTime

\* the derived current price of the data model: max over all rows
CurrentPrice(a) == calculateCurrentPrice(auctions[a].startingPrice, BidsOf(a))

(* ----------------------- BidsService.placeBid ------------------------- *)
\* a call slot: pc "idle" before the first call, "tx" / "upsert" / "commit"
\* inside the transaction, "done" after the call returned or threw; then
\* result is how it ended and price the current price it reports (for an
\* accepted bid: the auction's current price at the moment of the commit)
IdleProc == [pc |-> "idle", auctionId |-> "a1", bidderId |-> "u1", amount |-> 1,
             sawRow |-> FALSE, result |-> "none", price |-> NULL, inTx |-> FALSE]

\* inTx: the call ended inside the transaction
Finished(kind, amt, price, sawRow, inTx) ==
  [pc |-> "done", auctionId |-> "a1", bidderId |-> "u1", amount |-> amt,
   sawRow |-> sawRow, result |-> kind, price |-> price, inTx |-> inTx]

\* the pre-check without the comparison of sellerId and bidderId
PlaceBidPreCheckNoSellerCheck(p, a, u, amt) ==
  /\ bidProc[p].pc \in {"idle", "done"}
  /\ LET auction == auctions[a]
         currentPrice == calculateCurrentPrice(auction.startingPrice, TopBids(a))
         reject(kind, price) ==
           bidProc' = [bidProc EXCEPT ![p] = Finished(kind, amt, price, FALSE, FALSE)]
     IN IF ~auction.exists THEN reject("NotFound", NULL)
        ELSE IF ~isAuctionActive(auction.endTime) THEN reject("AuctionEnded", NULL)
        ELSE IF ~isValidBidAmount(amt, currentPrice) THEN reject("TooLow", currentPrice)
        ELSE bidProc' = [bidProc EXCEPT ![p] =
               [pc |-> "tx", auctionId |-> a, bidderId |-> u, amount |-> amt,
                sawRow |-> FALSE, result |-> "none", price |-> NULL,
                inTx |-> FALSE]]
  /\ UNCHANGED <<now, dbVars, maxAccepted, schedVars, sseVars>>

\* lines 28-57: the pre-check outside the transaction; a call that passes it
\* goes on to open the transaction
PlaceBidPreCheck(p, a, u, amt) ==
  /\ bidProc[p].pc \in {"idle", "done"}
  /\ LET auction == auctions[a]
         currentPrice == calculateCurrentPrice(auction.startingPrice, TopBids(a))
         reject(kind, price) ==
           bidProc' = [bidProc EXCEPT ![p] = Finished(kind, amt, price, FALSE, FALSE)]
     IN IF ~auction.exists THEN reject("NotFound", NULL)
        ELSE IF ~isAuctionActive(auction.endTime) THEN reject("AuctionEnded", NULL)
        ELSE IF auction.sellerId = u THEN reject("SelfBid", NULL)
        ELSE IF ~isValidBidAmount(amt, currentPrice) THEN reject("TooLow", currentPrice)
        ELSE bidProc' = [bidProc EXCEPT ![p] =
               [pc |-> "tx", auctionId |-> a, bidderId |-> u, amount |-> amt,
                sawRow |-> FALSE, result |-> "none", price |-> NULL,
                inTx |-> FALSE]]
  /\ UNCHANGED <<now, dbVars, maxAccepted, schedVars, sseVars>>

\* lines 67-93: inside the transaction, re-read the auction with its top bid
\* and repeat the checks on what was read
TxRead(p) ==
  /\ bidProc[p].pc = "tx"
  /\ LET a == bidProc[p].auctionId
         amt == bidProc[p].amount
         currentAuction == auctions[a]
         latestCurrentPrice ==
           calculateCurrentPrice(currentAuction.startingPrice, TopBids(a))
         reject(kind, price) ==
           bidProc' = [bidProc EXCEPT ![p] = Finished(kind, amt, price, FALSE, TRUE)]
     IN IF ~currentAuction.exists THEN reject("NotFound", NULL)
        ELSE IF ~isAuctionActive(currentAuction.endTime)
          THEN reject("AuctionEnded", NULL)
        ELSE IF ~isValidBidAmount(amt, latestCurrentPrice)
          THEN reject("TooLow", latestCurrentPrice)
        ELSE bidProc' = [bidProc EXCEPT ![p].pc = "upsert"]
  /\ UNCHANGED <<now, dbVars, maxAccepted, schedVars, sseVars>>

HasRow(bs, a, u) == \E b \in bs : b.auctionId = a /\ b.bidderId = u

\* lines 95-120: tx.bid.upsert carries an include, so Prisma runs it as a
\* lookup by (auctionId, bidderId) followed by an UPDATE or an INSERT
TxUpsertLookup(p) ==
  /\ bidProc[p].pc = "upsert"
  /\ bidProc' = [bidProc EXCEPT
        ![p].pc = "commit",
        ![p].sawRow = HasRow(bids, bidProc[p].auctionId, bidProc[p].bidderId)]
  /\ UNCHANGED <<now, dbVars, maxAccepted, schedVars, sseVars>>

\* the upsert written as a plain create: a second row for the pair
UpsertAsInsert(bs, a, u, amt, at) ==
  bs \cup {[auctionId |-> a, bidderId |-> u, amount |-> amt, createdAt |-> at]}

\* the upsert with a where on the auction alone: every row of the auction
\* takes the amount
UpsertByAuction(bs, a, u, amt, at) ==
  IF \E b \in bs : b.auctionId = a
  THEN {IF b.auctionId = a THEN [b EXCEPT !.amount = amt] ELSE b : b \in bs}
  ELSE bs \cup {[auctionId |-> a, bidderId |-> u, amount |-> amt, createdAt |-> at]}

\* the row write of the upsert: update { amount } or create { amount,
\* auctionId, bidderId } (createdAt defaults to the time of the insert)
Upsert(bs, a, u, amt, at) ==
  IF HasRow(bs, a, u)
  THEN {IF b.auctionId = a /\ b.bidderId = u
          THEN [b EXCEPT !.amount = amt] ELSE b : b \in bs}
  ELSE bs \cup {[auctionId |-> a, bidderId |-> u, amount |-> amt, createdAt |-> at]}

\* the write and the commit; bids_auctionId_bidderId_key (part_003:77)
\* fails an INSERT that meets a row committed since the lookup
TxCommit(p) ==
  /\ bidProc[p].pc = "commit"
  /\ LET a == bidProc[p].auctionId
         u == bidProc[p].bidderId
         amt == bidProc[p].amount
         rowNow == HasRow(bids, a, u)
     IN IF ~auctions[a].exists \/ (rowNow /\ ~bidProc[p].sawRow)
        THEN /\ bidProc' = [bidProc EXCEPT ![p] = Finished("Conflict", amt, NULL, FALSE, TRUE)]
             /\ UNCHANGED <<bids, maxAccepted>>
        ELSE /\ bids' = Upsert(bids, a, u, amt, now)
             /\ bidProc' = [bidProc EXCEPT ![p] =
                   Finished("Accepted", amt, CurrentPrice(a), rowNow, TRUE)]
             /\ maxAccepted' = IF amt > maxAccepted THEN amt ELSE maxAccepted
  /\ UNCHANGED <<now, auctions, jobs, notifications, schedVars, sseVars>>

Tick ==
  /\ now < MaxTime
  /\ now' = now + 1
  /\ UNCHANGED <<dbVars, bidVars, schedVars, sseVars>>

(* ------------- NotificationsService.createNotification ---------------- *)
NotifRow(u, a, price) == [userId |-> u, auctionId |-> a, price |-> price]

\* lines 33-38: notification.deleteMany({ where: { userId, auctionId } })
DeleteMany(n, u, a) ==
  [r \in {x \in DOMAIN n : ~(x.userId = u /\ x.auctionId = a)} |-> n[r]]

\* lines 46-62: notification.create; the row gets a fresh id, and
\* notifications_userId_auctionId_idx (part_003:17) is not unique
CreateRow(n, r) == n (+) SetToBag({r})

\* the rows the store holds for one (userId, auctionId)
NotifCount(u, a) ==
  BagCardinality([r \in {x \in DOMAIN notifications :
                           x.userId = u /\ x.auctionId = a} |-> notifications[r]])

NotifsOf(a) == {x \in DOMAIN notifications : x.auctionId = a}

\* getUserNotifications(userId, { page: 1 }): findMany where { userId }
\* with take: limit, and count where { userId }
getUserNotifications(n, u) ==
  LET mine == {r \in DOMAIN n : r.userId = u}
  IN [notifications |-> [r \in mine |-> n[r]],
      total |-> BagCardinality([r \in mine |-> n[r]])]

\* the deleteMany without its where: every user's rows go
ClearEveryNotification(u) ==
  /\ notifications' = EmptyBag
  /\ UNCHANGED <<now, auctions, bids, jobs, bidVars, schedVars, sseVars>>

\* clearAllNotifications(userId): notification.deleteMany({ where: { userId } })
clearAllNotifications(u) ==
  /\ notifications' =
       [r \in {x \in DOMAIN notifications : x.userId # u} |-> notifications[r]]
  /\ UNCHANGED <<now, auctions, bids, jobs, bidVars, schedVars, sseVars>>

(* ----------------------------- SseService ----------------------------- *)
\* a request that has not been made; open: the response still takes
\* writes; log: the notification events written to the client; again:
\* response.write was called on it after a write to it threw
NoStream == [pc |-> "none", userId |-> "u1", lastEventId |-> FALSE,
             open |-> FALSE, log |-> EmptyBag, again |-> FALSE]

SseConnection(u, c) == [userId |-> u, response |-> c, isConnected |-> TRUE]

\* the copies of one row in a bag
Copies(bag, r) == IF r \in DOMAIN bag THEN bag[r] ELSE 0

\* connections.get(userId).push(connection); the 'connected' event that
\* follows is not a notification and is left out of the log
addConnection(conns, u, c) ==
  [conns EXCEPT ![u] = Append(@, SseConnection(u, c))]

\* userConnections.findIndex(conn => conn.response === response); 0 for -1
findIndex(list, c) ==
  IF \E i \in DOMAIN list : list[i].response = c
  THEN CHOOSE i \in DOMAIN list :
         /\ list[i].response = c
         /\ \A k \in 1..(i - 1) : list[k].response # c
  ELSE 0

\* userConnections.splice(index, 1)
splice(list, index) ==
  [k \in 1..(Len(list) - 1) |-> IF k < index THEN list[k] ELSE list[k + 1]]

\* removeConnection without the test index !== -1: splice(-1, 1) takes the
\* last connection of the list
removeConnectionNoIndexCheck(conns, u, c) ==
  IF conns[u] = <<>> THEN conns
  ELSE IF findIndex(conns[u], c) = 0
  THEN [conns EXCEPT ![u] = splice(@, Len(@))]
  ELSE [conns EXCEPT ![u] = splice(@, findIndex(@, c))]

\* removeConnection(userId, response), the lists: findIndex on the
\* response, and splice if it was found
removeConnection(conns, u, c) ==
  IF findIndex(conns[u], c) = 0 THEN conns
  ELSE [conns EXCEPT ![u] = splice(@, findIndex(@, c))]

\* removeConnection(userId, response), the keys: connections.delete(userId)
\* if the splice left the list empty
removeKey(keys, conns, u, c) ==
  IF u \in keys /\ findIndex(conns[u], c) # 0 /\ Len(conns[u]) = 1
  THEN keys \ {u} ELSE keys

\* getConnectionCount(userId)
getConnectionCount(u) ==
  IF u \in connKeys
  THEN Cardinality({i \in DOMAIN connections[u] : connections[u][i].isConnected})
  ELSE 0

\* the responses of userId's connections on which sendToConnection goes
\* past its test of isConnected and calls response.write
Attempted(u) ==
  {connections[u][i].response :
     i \in {k \in DOMAIN connections[u] : connections[u][k].isConnected}}

\* sendToUserConnections writing to the first connection only
sendToFirstConnection(u) ==
  {c \in Clients :
     /\ connections[u] # <<>>
     /\ connections[u][1].response = c
     /\ connections[u][1].isConnected
     /\ stream[c].open}

\* sendToUserConnections writing to the connections of every user
sendToEveryConnection(u) ==
  {c \in Clients :
     \E v \in Users : \E i \in DOMAIN connections[v] :
       /\ connections[v][i].response = c
       /\ connections[v][i].isConnected
       /\ stream[c].open}

\* sendToUserConnections: forEach connection sendToConnection, which
\* returns at once if isConnected is false; the clients the event reaches
sendToUserConnections(u) ==
  {c \in Clients :
     \E i \in DOMAIN connections[u] :
       /\ connections[u][i].response = c
       /\ connections[u][i].isConnected
       /\ stream[c].open}

\* the registered connections whose response no longer takes writes:
\* response.write may throw there, or drop the event silently
Broken(u) ==
  {c \in Clients :
     \E i \in DOMAIN connections[u] :
       /\ connections[u][i].response = c
       /\ connections[u][i].isConnected
       /\ ~stream[c].open}

\* broadcastNotification(userId, n): notificationSubject.next has no
\* subscriber (getNotificationStream is never called), then
\* sendToUserConnections; sendToConnection's catch sets isConnected false
\* for the writes that threw
broadcastNotification(u, n, thrown) ==
  /\ stream' = [c \in Clients |->
                  IF c \in sendToUserConnections(u)
                  THEN [stream[c] EXCEPT !.log = @ (+) SetToBag({n})]
                  ELSE IF c \in Attempted(u)
                            /\ \E i \in DOMAIN connections[u] :
                                 /\ connections[u][i].response = c
                                 /\ ~connections[u][i].isConnected
                  THEN [stream[c] EXCEPT !.again = TRUE]
                  ELSE stream[c]]
  /\ connKeys' = connKeys
  /\ connections' =
       [connections EXCEPT ![u] =
          [i \in DOMAIN connections[u] |->
             IF connections[u][i].response \in thrown
             THEN [connections[u][i] EXCEPT !.isConnected = FALSE]
             ELSE connections[u][i]]]

(* ------------- NotificationsController.streamNotifications ------------ *)
\* writeHead, addConnection, the close handler; the catch-up follows if the
\* request carries Last-Event-ID
StreamStart(c, u, lastEventId) ==
  /\ stream[c].pc = "none"
  /\ connections' = addConnection(connections, u, c)
  /\ connKeys' = connKeys \cup {u}
  /\ stream' = [stream EXCEPT ![c] =
                  [pc |-> IF lastEventId THEN "catchup" ELSE "live",
                   userId |-> u, lastEventId |-> lastEventId,
                   open |-> TRUE, log |-> EmptyBag, again |-> FALSE]]
  /\ UNCHANGED <<now, dbVars, bidVars, schedVars>>

\* getUserNotifications(userId, { page: 1, limit: 10 }) and one
\* response.write per row of the result
CatchUpLimit == 10
StreamCatchUp(c) ==
  /\ stream[c].pc = "catchup"
  /\ LET mine == {r \in DOMAIN notifications : r.userId = stream[c].userId}
         rows == [r \in mine |-> notifications[r]]
     IN /\ BagCardinality(rows) <= CatchUpLimit
        /\ stream' = [stream EXCEPT ![c].pc = "live",
                                    ![c].log = IF stream[c].open
                                               THEN @ (+) rows ELSE @]
  /\ UNCHANGED <<now, dbVars, bidVars, schedVars, connections, connKeys>>

\* the connection fails; the request's 'close' event has not run yet
StreamBreaks(c) ==
  /\ stream[c].pc \in {"catchup", "live"}
  /\ stream[c].open
  /\ stream' = [stream EXCEPT ![c].open = FALSE]
  /\ UNCHANGED <<now, dbVars, bidVars, schedVars, connections, connKeys>>

\* req.on('close'): removeConnection
StreamClose(c) ==
  /\ stream[c].pc \in {"catchup", "live"}
  /\ connections' = removeConnection(connections, stream[c].userId, c)
  /\ connKeys' = removeKey(connKeys, connections, stream[c].userId, c)
  /\ stream' = [stream EXCEPT ![c].open = FALSE, ![c].pc = "closed"]
  /\ UNCHANGED <<now, dbVars, bidVars, schedVars>>

(* ------------------- AuctionSchedulerService -------------------------- *)
\* the state after createAuction(s1, {startingPrice, endTime}) has completed
OpenAuction(startingPrice, endTime) ==
  [exists |-> TRUE, sellerId |-> Seller, startingPrice |-> startingPrice,
   endTime |-> endTime]

PendingJob(at) ==
  [exists |-> TRUE, scheduledAt |-> at, status |-> "PENDING", executedAt |-> NULL,
   error |-> ""]

\* tried, errs: the recipients of the current job for which
\* createNotification was called, and for which it threw
\* prior: the deleteMany of the createNotification call in progress removed a row
IdleSweep == [pc |-> "idle", queue |-> <<>>, i |-> 1, tried |-> {}, errs |-> {},
              prior |-> FALSE]
IdleUpd == [pc |-> "idle", auctionId |-> "a1", endTime |-> 0, changed |-> FALSE,
            found |-> FALSE, creating |-> FALSE]
\* outs: transitions out of PENDING since the job was armed; settles: calls
\* of createNotificationsForAuction since then; reproc: executeJob began on
\* a job that was not PENDING; rewritten: a sweep wrote a job that was
\* EXECUTED; skipped: a sweep passed over the EXECUTED job; ran: a call of
\* createNotificationsForAuction ran to its end and no createNotification
\* began since; winners: the users that were written a notification with a
\* price; missed: a run ended without calling createNotification for one
\* of its recipients; errors: a createNotification of the last run threw;
\* dropped: a sweep ended before it reached the job it had selected;
\* deleted: the status of the job when its auction was deleted; rearmed:
\* updateAuction set the job back to PENDING after a settlement had
\* written notifications; deleteThrew: deleteAuction ended with an error
\* after auction.delete
NoHist == [outs |-> 0, settles |-> 0, reproc |-> FALSE, rewritten |-> FALSE,
           skipped |-> FALSE, ran |-> FALSE, winners |-> {},
           missed |-> FALSE, errors |-> FALSE, dropped |-> FALSE,
           deleted |-> "no", rearmed |-> FALSE, deleteThrew |-> FALSE]
Cap2(n) == IF n >= 2 THEN 2 ELSE n + 1

\* every order in which a read without orderBy can return the rows of S
Orderings(S) ==
  {f \in [1..Cardinality(S) -> S] :
     \A i, j \in 1..Cardinality(S) : f[i] = f[j] => i = j}

\* auction-end.service.ts line 69: bids.sort((a, b) => b.amount - a.amount),
\* a stable sort of the rows in the order the store returned them
SortedBids(bs) ==
  {f \in Orderings(bs) :
     \A i, j \in 1..Cardinality(bs) : i < j => f[i].amount >= f[j].amount}

\* auction-end.service.ts lines 71-126: sortedBids[0] is notified with the
\* final price, sortedBids.slice(1) with price null, in this order
Recipients(sorted) ==
  [k \in 1..Len(sorted) |->
     [userId |-> sorted[k].bidderId,
      price |-> IF k = 1 THEN sorted[k].amount ELSE NULL]]

RecipientLists(a) == {Recipients(f) : f \in SortedBids(BidsOf(a))}

\* the query written without its status filter
DueJobsAnyStatus ==
  {a \in DOMAIN jobs : jobs[a].exists /\ jobs[a].scheduledAt <= now}

\* processScheduledJobs: where { scheduledAt: { lte: now }, status: PENDING }
DueJobs ==
  {a \in DOMAIN jobs : /\ jobs[a].exists
                    /\ jobs[a].status = "PENDING"
                    /\ jobs[a].scheduledAt <= now}

\* the query without its orderBy: the due jobs in any order
DueQueuesUnordered ==
  {[k \in 1..Cardinality(DueJobs) |-> [auctionId |-> ord[k], recipients |-> rec[ord[k]]]] :
     ord \in Orderings(DueJobs),
     rec \in {g \in [DueJobs -> UNION {RecipientLists(a) : a \in DueJobs}] :
                \A a \in DueJobs : g[a] \in RecipientLists(a)}}

\* orderBy scheduledAt asc, each job with its auction and the auction's bids
DueQueues ==
  {[k \in 1..Cardinality(DueJobs) |-> [auctionId |-> ord[k], recipients |-> rec[ord[k]]]] :
     ord \in {f \in Orderings(DueJobs) :
                \A i, j \in 1..Cardinality(DueJobs) :
                  i < j => jobs[f[i]].scheduledAt <= jobs[f[j]].scheduledAt},
     rec \in {g \in [DueJobs -> UNION {RecipientLists(a) : a \in DueJobs}] :
                \A a \in DueJobs : g[a] \in RecipientLists(a)}}

\* executeJob(job) up to its first await
BeginJob(q) ==
  [pc |-> IF q = <<>> THEN "idle"
          ELSE IF variant = "markThenSettle" \/ Len(Head(q).recipients) = 0
            THEN "mark" ELSE "delete",
   queue |-> q, i |-> 1, tried |-> {}, errs |-> {}, prior |-> FALSE]

\* history: executeJob begins on a job that is no longer PENDING
NoteBegin(h, q, js) ==
  IF q # <<>> /\ js[Head(q).auctionId].exists
              /\ js[Head(q).auctionId].status # "PENDING"
  THEN [h EXCEPT ![Head(q).auctionId].reproc = TRUE] ELSE h

\* history: a sweep passes over a job that is EXECUTED or FAILED
NoteSkipped(h) ==
  [a \in DOMAIN jobs |->
     IF jobs[a].exists /\ jobs[a].status \in {"EXECUTED", "FAILED"} /\ a \notin DueJobs
     THEN [h[a] EXCEPT !.skipped = TRUE] ELSE h[a]]

\* processScheduledJobs up to the first await of the first executeJob
SweepStart(w) ==
  /\ sweep[w].pc = "idle"
  /\ IF DueJobs = {}
     THEN /\ hist' = NoteSkipped(hist)
          /\ UNCHANGED sweep
     ELSE \E q \in DueQueues :
            /\ sweep' = [sweep EXCEPT ![w] = BeginJob(q)]
            /\ hist' = NoteBegin(NoteSkipped(hist), q, jobs)
  /\ UNCHANGED <<now, dbVars, bidVars, variant, sseVars, upd>>

CurJob(w) == Head(sweep[w].queue)
CurRecipient(w) == CurJob(w).recipients[sweep[w].i]

RecipientUsers(job) == {job.recipients[k].userId : k \in 1..Len(job.recipients)}

\* history: createNotificationsForAuction is entered
NoteRun(h, w) ==
  IF sweep[w].i = 1
  THEN [h EXCEPT ![CurJob(w).auctionId].settles = Cap2(@),
                 ![CurJob(w).auctionId].ran = FALSE,
                 ![CurJob(w).auctionId].errors = FALSE]
  ELSE [h EXCEPT ![CurJob(w).auctionId].ran = FALSE]

\* createNotification without its deleteMany
NotifyDeleteSkipped(w) ==
  /\ sweep[w].pc = "delete"
  /\ UNCHANGED notifications
  /\ sweep' = [sweep EXCEPT ![w].pc = "create",
                            ![w].tried = @ \cup {CurRecipient(w).userId},
                            ![w].prior = NotifCount(CurRecipient(w).userId,
                                                    CurJob(w).auctionId) > 0]
  /\ hist' = NoteRun(hist, w)
  /\ UNCHANGED <<now, auctions, bids, jobs, bidVars, variant, sseVars, upd>>

\* createNotification, first await: deleteMany of the pair's rows
NotifyDelete(w) ==
  /\ sweep[w].pc = "delete"
  /\ notifications' =
       DeleteMany(notifications, CurRecipient(w).userId, CurJob(w).auctionId)
  /\ sweep' = [sweep EXCEPT ![w].pc = "create",
                            ![w].tried = @ \cup {CurRecipient(w).userId},
                            ![w].prior = NotifCount(CurRecipient(w).userId,
                                                    CurJob(w).auctionId) > 0]
  /\ hist' = NoteRun(hist, w)
  /\ UNCHANGED <<now, auctions, bids, jobs, bidVars, variant, sseVars, upd>>

\* createNotification returned or threw (the throw is caught per recipient,
\* auction-end.service.ts lines 94-100 and 119-125): the next recipient,
\* or the run ends and the status update (part_016) or the next job
\* (auction-scheduler.service.ts) follows; sw is the sweep at that point
EndRecipient(w, sw, h) ==
  LET a == CurJob(w).auctionId
      h2 == [h EXCEPT ![a].ran = TRUE,
                      ![a].missed = @ \/ sw.tried # RecipientUsers(CurJob(w)),
                      ![a].errors = sw.errs # {}]
  IN IF sw.i < Len(CurJob(w).recipients)
     THEN /\ sweep' = [sweep EXCEPT ![w] = [sw EXCEPT !.pc = "delete", !.i = @ + 1,
                                                 !.prior = FALSE]]
          /\ hist' = h
     ELSE IF variant = "settleThenMark"
     THEN /\ sweep' = [sweep EXCEPT ![w] = [sw EXCEPT !.pc = "mark", !.prior = FALSE]]
          /\ hist' = h2
     ELSE /\ sweep' = [sweep EXCEPT ![w] = BeginJob(Tail(sw.queue))]
          /\ hist' = NoteBegin(h2, Tail(sw.queue), jobs)

\* the create without the foreign key to auctions
NotifyCreateNoForeignKey(w) ==
  /\ sweep[w].pc = "create"
  /\ LET a == CurJob(w).auctionId
         u == CurRecipient(w).userId
     IN /\ notifications' =
             CreateRow(notifications, NotifRow(u, a, CurRecipient(w).price))
        /\ \E thrown \in SUBSET Broken(u) :
             broadcastNotification(u, NotifRow(u, a, CurRecipient(w).price),
                                   thrown)
        /\ EndRecipient(w, sweep[w],
               IF CurRecipient(w).price # NULL
               THEN [hist EXCEPT ![a].winners = @ \cup {u}] ELSE hist)
  /\ UNCHANGED <<now, auctions, bids, jobs, bidVars, variant, upd>>

\* the create whose broadcast lets a failing write escape into
\* createNotification's catch: the recipient counts as failed
NotifyCreatePushFailureThrows(w) ==
  /\ sweep[w].pc = "create"
  /\ LET a == CurJob(w).auctionId
         u == CurRecipient(w).userId
     IN IF auctions[a].exists
        THEN /\ notifications' =
                  CreateRow(notifications, NotifRow(u, a, CurRecipient(w).price))
             /\ \E thrown \in SUBSET Broken(u) :
                  /\ broadcastNotification(u, NotifRow(u, a, CurRecipient(w).price),
                                           thrown)
                  /\ EndRecipient(w,
                         IF thrown # {}
                         THEN [sweep[w] EXCEPT !.errs = @ \cup {u}] ELSE sweep[w],
                         IF CurRecipient(w).price # NULL
                         THEN [hist EXCEPT ![a].winners = @ \cup {u}] ELSE hist)
        ELSE /\ UNCHANGED <<notifications, sseVars>>
             /\ EndRecipient(w, [sweep[w] EXCEPT !.errs = @ \cup {u}], hist)
  /\ UNCHANGED <<now, auctions, bids, jobs, bidVars, variant, upd>>

\* createNotification, second await: create, then the SSE broadcast of the
\* created row; notifications_auctionId_fkey (part_003:29) fails the create
\* when the auction is gone
NotifyCreate(w) ==
  /\ sweep[w].pc = "create"
  /\ LET a == CurJob(w).auctionId
         u == CurRecipient(w).userId
     IN IF auctions[a].exists
        THEN /\ notifications' =
                  CreateRow(notifications, NotifRow(u, a, CurRecipient(w).price))
             /\ \E thrown \in SUBSET Broken(u) :
                  broadcastNotification(u, NotifRow(u, a, CurRecipient(w).price),
                                        thrown)
             /\ EndRecipient(w, sweep[w],
                    IF CurRecipient(w).price # NULL
                    THEN [hist EXCEPT ![a].winners = @ \cup {u}] ELSE hist)
        ELSE /\ UNCHANGED <<notifications, sseVars>>
             /\ EndRecipient(w, [sweep[w] EXCEPT !.errs = @ \cup {u}], hist)
  /\ UNCHANGED <<now, auctions, bids, jobs, bidVars, variant, upd>>

\* the throw written as the end of the run
NotifyFailsStopsRun(w) ==
  /\ sweep[w].pc \in {"delete", "create"}
  /\ LET u == CurRecipient(w).userId
     IN EndRecipient(w, [sweep[w] EXCEPT !.tried = @ \cup {u}, !.errs = @ \cup {u},
                                         !.i = Len(CurJob(w).recipients)],
                     IF sweep[w].pc = "delete" THEN NoteRun(hist, w) ELSE hist)
  /\ UNCHANGED <<now, dbVars, bidVars, variant, sseVars, upd>>

\* the store fails deleteMany or create: createNotification throws
NotifyFails(w) ==
  /\ sweep[w].pc \in {"delete", "create"}
  /\ LET u == CurRecipient(w).userId
     IN EndRecipient(w, [sweep[w] EXCEPT !.tried = @ \cup {u}, !.errs = @ \cup {u}],
                     IF sweep[w].pc = "delete" THEN NoteRun(hist, w) ELSE hist)
  /\ UNCHANGED <<now, dbVars, bidVars, variant, sseVars, upd>>

\* history: the jobs of q are not reached by the sweep that selected them
NoteDropped(h, q) ==
  [a \in DOMAIN h |->
     IF \E k \in 1..Len(q) : q[k].auctionId = a
     THEN [h[a] EXCEPT !.dropped = TRUE] ELSE h[a]]

\* an error leaves executeJob: the for loop of processScheduledJobs stands
\* inside one try, whose catch logs and returns (part_016 lines 144-154)
SweepThrows(w) ==
  /\ sweep' = [sweep EXCEPT ![w] = IdleSweep]
  /\ hist' = NoteDropped(hist, Tail(sweep[w].queue))

\* the row written without executedAt
ExecutedRowNoTime(j) == [j EXCEPT !.status = "EXECUTED"]

\* data: { status: EXECUTED, executedAt: new Date() }
ExecutedRow(j) == [j EXCEPT !.status = "EXECUTED", !.executedAt = now]

\* scheduledJob.update({ where: { id }, data: { status: EXECUTED,
\* executedAt: new Date() } }): no condition on the row's status; the
\* update of a row that is gone throws, and so does the FAILED update of
\* the catch (part_016 lines 207-221)
MarkExecuted(w) ==
  /\ sweep[w].pc = "mark"
  /\ LET a == CurJob(w).auctionId
         js == [jobs EXCEPT ![a] = ExecutedRow(@)]
         h == IF jobs[a].status = "PENDING"
              THEN [hist EXCEPT ![a].outs = Cap2(@)]
              ELSE [hist EXCEPT ![a].rewritten = TRUE]
     IN IF ~jobs[a].exists
        THEN /\ SweepThrows(w)
             /\ UNCHANGED jobs
        ELSE /\ jobs' = js
             /\ IF variant = "markThenSettle" /\ Len(CurJob(w).recipients) > 0
                THEN /\ sweep' = [sweep EXCEPT ![w].pc = "delete"]
                     /\ hist' = h
                ELSE /\ sweep' = [sweep EXCEPT ![w] = BeginJob(Tail(sweep[w].queue))]
                     /\ hist' = NoteBegin(h, Tail(sweep[w].queue), js)
  /\ UNCHANGED <<now, auctions, bids, notifications, bidVars, variant, sseVars, upd>>

\* the store fails the EXECUTED update of a row that exists: the catch of
\* executeJob writes FAILED with the message and the sweep goes on; the
\* update for an auction without bids of auction-scheduler.service.ts
\* (lines 221-232) stands before the try, so its error leaves executeJob
MarkFails(w) ==
  /\ sweep[w].pc = "mark"
  /\ jobs[CurJob(w).auctionId].exists
  /\ LET a == CurJob(w).auctionId
         js == [jobs EXCEPT ![a].status = "FAILED", ![a].error = "update failed"]
         h == IF jobs[a].status = "PENDING"
              THEN [hist EXCEPT ![a].outs = Cap2(@)]
              ELSE [hist EXCEPT ![a].rewritten = TRUE]
     IN IF variant = "markThenSettle" /\ Len(CurJob(w).recipients) = 0
        THEN /\ SweepThrows(w)
             /\ UNCHANGED jobs
        ELSE /\ jobs' = js
             /\ sweep' = [sweep EXCEPT ![w] = BeginJob(Tail(sweep[w].queue))]
             /\ hist' = NoteBegin(h, Tail(sweep[w].queue), js)
  /\ UNCHANGED <<now, auctions, bids, notifications, bidVars, variant, sseVars, upd>>

(* ---------------------- AuctionService.createAuction ------------------ *)
\* the checks and auction.create; the job is written by a later await
CreateAuctionRow(x, a, startingPrice, t) ==
  /\ upd[x].pc = "idle"
  /\ ~auctions[a].exists
  /\ t > now
  /\ startingPrice > 0
  /\ auctions' = [auctions EXCEPT ![a] = OpenAuction(startingPrice, t)]
  /\ upd' = [upd EXCEPT ![x] =
               [pc |-> "find", auctionId |-> a, endTime |-> t,
                changed |-> TRUE, found |-> FALSE, creating |-> TRUE]]
  /\ UNCHANGED <<now, bids, jobs, notifications, bidVars, variant, sseVars, sweep, hist>>

(* ---------------------- AuctionService.deleteAuction ------------------ *)
\* cancelAuctionEnd after auction.delete, when the cascade has removed the
\* job: part_016 looks the job up first and finds none;
\* auction-scheduler.service.ts calls scheduledJob.delete at once, which
\* throws on the missing row, and deleteAuction rethrows
cancelAuctionEndThrows == variant = "markThenSettle"

\* auction.delete: the foreign keys of bids, scheduled_jobs and
\* notifications cascade (part_003:29, 83; part_004:53)
\* the delete without the cascade to notifications
DeleteAuctionKeepsNotifications(a) ==
  /\ auctions[a].exists
  /\ auctions' = [auctions EXCEPT ![a] = NoAuction]
  /\ bids' = bids \ BidsOf(a)
  /\ jobs' = [jobs EXCEPT ![a] = NoJob]
  /\ UNCHANGED notifications
  /\ hist' = [hist EXCEPT ![a].deleted =
                 IF jobs[a].exists THEN jobs[a].status ELSE "none",
                           ![a].deleteThrew = cancelAuctionEndThrows]
  /\ UNCHANGED <<now, bidVars, variant, sseVars, sweep, upd>>

DeleteAuction(a) ==
  /\ auctions[a].exists
  /\ auctions' = [auctions EXCEPT ![a] = NoAuction]
  /\ bids' = bids \ BidsOf(a)
  /\ jobs' = [jobs EXCEPT ![a] = NoJob]
  /\ notifications' =
       [r \in {x \in DOMAIN notifications : x.auctionId # a} |-> notifications[r]]
  /\ hist' = [hist EXCEPT ![a].deleted =
                 IF jobs[a].exists THEN jobs[a].status ELSE "none",
                           ![a].deleteThrew = cancelAuctionEndThrows]
  /\ UNCHANGED <<now, bidVars, variant, sseVars, sweep, upd>>

(* ---------------------- AuctionService.updateAuction ------------------ *)
\* findUnique and the checks; the seller sends { endTime }
UpdStart(x, a, t) ==
  /\ upd[x].pc = "idle"
  /\ auctions[a].exists
  /\ t > now
  /\ upd' = [upd EXCEPT ![x] =
               [pc |-> "write", auctionId |-> a, endTime |-> t,
                changed |-> auctions[a].endTime # t, found |-> FALSE,
                creating |-> FALSE]]
  /\ UNCHANGED <<now, dbVars, bidVars, variant, sseVars, sweep, hist>>

\* auction.update; part_010 goes on to the job only if endTime changed,
\* auction.service.ts whenever endTime was sent
UpdWrite(x) ==
  /\ upd[x].pc = "write"
  /\ IF auctions[upd[x].auctionId].exists
     THEN /\ auctions' = [auctions EXCEPT
                            ![upd[x].auctionId].endTime = upd[x].endTime]
          /\ upd' = IF variant = "markThenSettle" \/ upd[x].changed
                    THEN [upd EXCEPT ![x].pc = "find"]
                    ELSE [upd EXCEPT ![x] = IdleUpd]
     ELSE /\ UNCHANGED auctions
          /\ upd' = [upd EXCEPT ![x] = IdleUpd]
  /\ UNCHANGED <<now, bids, jobs, notifications, bidVars, variant, sseVars, sweep, hist>>

\* updateOrCreateAuctionEnd / scheduleAuctionEnd / rescheduleAuctionEnd:
\* scheduledJob.findUnique; rescheduleAuctionEnd throws if there is no job
UpdJobFind(x) ==
  /\ upd[x].pc = "find"
  /\ upd' = IF /\ ~jobs[upd[x].auctionId].exists
               /\ variant = "markThenSettle"
               /\ ~upd[x].creating
            THEN [upd EXCEPT ![x] = IdleUpd]
            ELSE [upd EXCEPT ![x].pc = "job",
                             ![x].found = jobs[upd[x].auctionId].exists]
  /\ UNCHANGED <<now, dbVars, bidVars, variant, sseVars, sweep, hist>>

\* scheduledJob.update({ scheduledAt, status: PENDING }) or create; the
\* update of a missing row, the create of a second row for the auction
\* (scheduled_jobs_auctionId_key) and the create for an auction that is
\* gone (scheduled_jobs_auctionId_fkey) throw
UpdJobWrite(x) ==
  /\ upd[x].pc = "job"
  /\ IF /\ upd[x].found = jobs[upd[x].auctionId].exists
        /\ auctions[upd[x].auctionId].exists
     THEN /\ jobs' = [jobs EXCEPT ![upd[x].auctionId] =
                       IF upd[x].found
                       THEN [@ EXCEPT !.scheduledAt = upd[x].endTime,
                                      !.status = "PENDING"]
                       ELSE PendingJob(upd[x].endTime)]
          /\ hist' = [hist EXCEPT ![upd[x].auctionId].outs = 0,
                                  ![upd[x].auctionId].settles = 0,
                                  ![upd[x].auctionId].skipped = FALSE,
                                  ![upd[x].auctionId].errors = FALSE,
                                  ![upd[x].auctionId].rearmed =
                                     @ \/ (/\ upd[x].found
                                           /\ jobs[upd[x].auctionId].status = "EXECUTED"
                                           /\ NotifsOf(upd[x].auctionId) # {})]
     ELSE UNCHANGED <<jobs, hist>>
  /\ upd' = [upd EXCEPT ![x] = IdleUpd]
  /\ UNCHANGED <<now, auctions, bids, notifications, bidVars, variant, sseVars, sweep>>

\* the process stops and restarts: every call in flight is gone, the
\* database stays
Crash ==
  /\ \/ \E w \in Sweepers : sweep[w].pc # "idle"
     \/ \E x \in Updaters : upd[x].pc # "idle"
  /\ sweep' = [w \in Sweepers |-> IdleSweep]
  /\ upd' = [x \in Updaters |-> IdleUpd]
  /\ bidProc' = [p \in Procs |-> IdleProc]
  /\ connections' = [u \in Users |-> <<>>]
  /\ connKeys' = {}
  /\ stream' = [c \in Clients |->
                  IF stream[c].pc = "none" THEN stream[c]
                  ELSE [stream[c] EXCEPT !.open = FALSE, !.pc = "closed"]]
  /\ UNCHANGED <<now, dbVars, maxAccepted, variant, hist>>

\* SseService.removeConnection(userId, response) called with any arguments
removeConnectionCall(u, c) ==
  /\ connections' = removeConnection(connections, u, c)
  /\ connKeys' = removeKey(connKeys, connections, u, c)
  /\ UNCHANGED <<now, dbVars, bidVars, schedVars, stream>>

\* SseService.broadcastNotification(userId, notification) called with an
\* 'outbid' notification of the user
MaxEvents == 2
Broadcast(u) ==
  /\ \A c \in sendToUserConnections(u) : BagCardinality(stream[c].log) < MaxEvents
  /\ \E thrown \in SUBSET Broken(u) :
       broadcastNotification(u, NotifRow(u, "a1", NULL), thrown)
  /\ UNCHANGED <<now, dbVars, bidVars, schedVars>>

(* --------------------------- specifications --------------------------- *)
InitBid ==
  /\ now = 0
  /\ auctions = [a \in Auctions |-> OpenAuction(Unit, MaxTime)]
  /\ bids = {}
  /\ jobs = [a \in Auctions |-> PendingJob(MaxTime)]
  /\ notifications = EmptyBag
  /\ bidProc = [p \in Procs |-> IdleProc]
  /\ maxAccepted = 0
  /\ variant = "settleThenMark"
  /\ sweep = [w \in Sweepers |-> IdleSweep]
  /\ upd = [x \in Updaters |-> IdleUpd]
  /\ connections = [u \in Users |-> <<>>]
  /\ connKeys = {}
  /\ stream = [c \in Clients |-> NoStream]
  /\ hist = [a \in Auctions |-> NoHist]

NextBid ==
  \/ Tick
  \/ \E p \in Procs, a \in Auctions, u \in BidUsers, amt \in Amounts :
       PlaceBidPreCheck(p, a, u, amt)
  \/ \E p \in Procs : TxRead(p)
  \/ \E p \in Procs : TxUpsertLookup(p)
  \/ \E p \in Procs : TxCommit(p)

SpecBid == InitBid /\ [][NextBid]_vars

\* placeBid calls that follow each other: no concurrent writer
NextBidSeq ==
  \/ Tick
  \/ \E a \in Auctions, u \in BidUsers, amt \in Amounts :
       PlaceBidPreCheck("p1", a, u, amt)
  \/ TxRead("p1")
  \/ TxUpsertLookup("p1")
  \/ TxCommit("p1")

SpecBidSeq == InitBid /\ [][NextBidSeq]_vars

\* the bidders' calls follow each other while the seller tries to bid on
\* the auction (p2), may delete it, and a bidder's client holds a
\* notification stream
NextBidDelete ==
  \/ NextBidSeq
  \/ \E a \in Auctions, amt \in Amounts : PlaceBidPreCheck("p2", a, Seller, amt)
  \/ \E a \in Auctions : DeleteAuction(a)
  \/ \E u \in {"u1"}, lastEventId \in {FALSE} : StreamStart("c1", u, lastEventId)
  \/ StreamClose("c1")

SpecBidDelete == InitBid /\ [][NextBidDelete]_vars

\* the bid tables that placeBid calls can leave behind (SpecBid reaches
\* equal amounts of two bidders too): at most one row per bidder, each
\* amount at least one increment above the starting price
BidTables(users, startingPrice) ==
  {{[auctionId |-> "a1", bidderId |-> u, amount |-> f[u], createdAt |-> 0] :
      u \in {x \in users : f[x] # 0}} :
     f \in [users -> {0} \cup {m \in Amounts :
                                 m >= startingPrice + minIncrement * Unit}]}

\* an auction created with endTime 1 on which bidding took place
InitSched(users) ==
  /\ now = 0
  /\ auctions = [a \in Auctions |-> OpenAuction(Unit, 1)]
  /\ bids \in BidTables(users, Unit)
  /\ jobs = [a \in Auctions |-> PendingJob(1)]
  /\ notifications = EmptyBag
  /\ bidProc = [p \in Procs |-> IdleProc]
  /\ maxAccepted = 0
  /\ variant \in Variants
  /\ sweep = [w \in Sweepers |-> IdleSweep]
  /\ upd = [x \in Updaters |-> IdleUpd]
  /\ connections = [u \in Users |-> <<>>]
  /\ connKeys = {}
  /\ stream = [c \in Clients |-> NoStream]
  /\ hist = [a \in Auctions |-> NoHist]

UpdateAuction ==
  \/ \E a \in Auctions, t \in Times : UpdStart("x1", a, t)
  \/ UpdWrite("x1")
  \/ UpdJobFind("x1")
  \/ UpdJobWrite("x1")

Sweep(w) ==
  \/ SweepStart(w)
  \/ NotifyDelete(w)
  \/ NotifyCreate(w)
  \/ MarkExecuted(w)

\* one scheduler process whose sweeps follow each other; restarts
NextSeq ==
  \/ Tick
  \/ Sweep("w1")
  \/ UpdateAuction
  \/ Crash

InitSeq == InitSched(Bidders)

SpecSeq == InitSeq /\ [][NextSeq]_vars

\* sweeps that overlap: two scheduler processes, or a cron tick that fires
\* while the previous sweep is still awaiting
Next ==
  \/ Tick
  \/ \E w \in Sweepers : Sweep(w)

Init == InitSched(Bidders)

Spec == Init /\ [][Next]_vars

\* an empty store: auctions are created, bid on, rescheduled and swept by
\* one process that may stop and restart; every step that is enabled is
\* taken in the end, and the restarts come to an end
InitLive ==
  /\ now = 0
  /\ auctions = [a \in Auctions |-> NoAuction]
  /\ bids = {}
  /\ jobs = [a \in Auctions |-> NoJob]
  /\ notifications = EmptyBag
  /\ bidProc = [p \in Procs |-> IdleProc]
  /\ maxAccepted = 0
  /\ variant \in Variants
  /\ sweep = [w \in Sweepers |-> IdleSweep]
  /\ upd = [x \in Updaters |-> IdleUpd]
  /\ connections = [u \in Users |-> <<>>]
  /\ connKeys = {}
  /\ stream = [c \in Clients |-> NoStream]
  /\ hist = [a \in Auctions |-> NoHist]

CreateAuction ==
  \E a \in Auctions, t \in Times : CreateAuctionRow("x1", a, Unit, t)

BidLive ==
  \/ \E a \in Auctions : PlaceBidPreCheck("p1", a, "u1", MaxAmount)
  \/ TxRead("p1")
  \/ TxUpsertLookup("p1")
  \/ TxCommit("p1")

JobWrite == UpdWrite("x1") \/ UpdJobFind("x1") \/ UpdJobWrite("x1")

NextLive ==
  \/ Tick
  \/ CreateAuction
  \/ \E a \in Auctions, t \in Times : UpdStart("x1", a, t)
  \/ JobWrite
  \/ BidLive
  \/ Sweep("w1")
  \/ Crash

SpecLive ==
  /\ InitLive
  /\ [][NextLive]_vars
  /\ WF_vars(Tick)
  /\ WF_vars(Sweep("w1"))
  /\ WF_vars(JobWrite)
  /\ WF_vars(BidLive)
  /\ <>[][~Crash]_vars

\* two auctions that ended at time 1, both jobs due: a1 without bids, with
\* one bid, with two bids, or with two equal top bids placed at different
\* times (placeBid calls that race leave such rows); a2 without bids or
\* with one bid
BidRow(a, u, amt, at) ==
  [auctionId |-> a, bidderId |-> u, amount |-> amt, createdAt |-> at]

FailTables ==
  {t1 \cup t2 :
     t1 \in {{}, {BidRow("a1", "u1", 2 * Unit, 0)},
             {BidRow("a1", "u1", 2 * Unit, 0), BidRow("a1", "u2", 3 * Unit, 0)},
             {BidRow("a1", "u1", 2 * Unit, 0), BidRow("a1", "u2", 2 * Unit, 1)}},
     t2 \in {{}, {BidRow("a2", "u3", 2 * Unit, 0)}}}

InitFail ==
  /\ now = 0
  /\ auctions = [a \in TwoAuctions |-> OpenAuction(Unit, 1)]
  /\ bids \in FailTables
  /\ jobs = [a \in TwoAuctions |-> PendingJob(1)]
  /\ notifications = EmptyBag
  /\ bidProc = [p \in Procs |-> IdleProc]
  /\ maxAccepted = 0
  /\ variant \in Variants
  /\ sweep = [w \in Sweepers |-> IdleSweep]
  /\ upd = [x \in Updaters |-> IdleUpd]
  /\ connections = [u \in Users |-> <<>>]
  /\ connKeys = {}
  /\ stream = [c \in Clients |-> NoStream]
  /\ hist = [a \in TwoAuctions |-> NoHist]

\* one scheduler process on a store that can fail a write, while sellers
\* delete and reschedule auctions
NextFail ==
  \/ Tick
  \/ Sweep("w1")
  \/ NotifyFails("w1")
  \/ MarkFails("w1")
  \/ \E a \in TwoAuctions : DeleteAuction(a)
  \/ UpdateAuction

SpecFail == InitFail /\ [][NextFail]_vars

\* two updateAuction calls of the seller that may overlap, next to the
\* scheduler
UpdateBy(x) ==
  \/ \E a \in Auctions, t \in Times : UpdStart(x, a, t)
  \/ UpdWrite(x)
  \/ UpdJobFind(x)
  \/ UpdJobWrite(x)

NextUpd ==
  \/ Tick
  \/ Sweep("w1")
  \/ MarkFails("w1")
  \/ \E x \in Updaters : UpdateBy(x)

SpecUpd == InitSched({"u1"}) /\ [][NextUpd]_vars

\* clients of the bidders open, lose and close notification streams while
\* the scheduler settles the auction: every (userId, auctionId) is written
\* at most once here, so a row stands for one notification id
StreamNotifications(c) ==
  \/ \E u \in {"u1", "u2"}, lastEventId \in BOOLEAN : StreamStart(c, u, lastEventId)
  \/ StreamCatchUp(c)
  \/ StreamBreaks(c)
  \/ StreamClose(c)

NextSse ==
  \/ Tick
  \/ Sweep("w1")
  \/ \E c \in Clients : StreamNotifications(c)

SpecSse == InitSched({"u1", "u2"}) /\ [][NextSse]_vars

\* the seller moves endTime of an auction with bids, before and after its
\* settlement; one scheduler process, no restart
NextRearm ==
  \/ Tick
  \/ Sweep("w1")
  \/ UpdateAuction

SpecRearm == InitSched({"u1", "u2"}) /\ [][NextRearm]_vars

\* the bidders clear their notifications while the scheduler settles the
\* auction and one client opens and closes a notification stream
NextClear ==
  \/ Tick
  \/ Sweep("w1")
  \/ \E u \in {"u1", "u2"} : clearAllNotifications(u)
  \/ StreamNotifications("c1")

SpecClear == InitSched({"u1", "u2"}) /\ [][NextClear]_vars

\* the SseService under any sequence of calls: clients open, lose and
\* close streams, removeConnection is called for any user and response,
\* and notifications are broadcast to either user
NextRegistry ==
  \/ \E c \in Clients : StreamNotifications(c)
  \/ \E u \in {"u1", "u2"}, c \in Clients : removeConnectionCall(u, c)
  \/ \E u \in {"u1", "u2"} : Broadcast(u)

SpecRegistry == InitSched({"u1", "u2"}) /\ [][NextRegistry]_vars

(* ------------------------------ claims -------------------------------- *)
NoBidInFlight == \A p \in Procs : bidProc[p].pc \in {"idle", "done"}

\* C1: every bid that commits is at least one increment above the auction's
\* current price at the moment of its own commit, so no two bidders hold
\* rows of the same amount on one auction (of two concurrent equal bids one
\* is rejected).
C1_CommitAgainstTruePrice ==
  /\ \A p \in Procs :
       bidProc[p].result = "Accepted" =>
         bidProc[p].amount >= bidProc[p].price + minIncrement * Unit
  /\ \A b1, b2 \in bids :
       (b1.auctionId = b2.auctionId /\ b1.bidderId # b2.bidderId) =>
         b1.amount # b2.amount

\* C2: once every placeBid call on the auction has finished, the current
\* price (max over the Bid rows, else startingPrice) is the highest amount
\* that was accepted.
C2_FinalPriceIsMaxAccepted ==
  (NoBidInFlight /\ maxAccepted > 0) =>
    \A a \in Auctions : auctions[a].exists => CurrentPrice(a) = maxAccepted

\* C3: there is at most one Bid row per (auctionId, bidderId).
C3_OneRowPerBidder ==
  \A b1, b2 \in bids :
    (b1.auctionId = b2.auctionId /\ b1.bidderId = b2.bidderId) => b1 = b2

\* C3 witness: an accepted re-bid has overwritten the bidder's only row
C3_Witness ==
  \E p \in Procs :
    /\ bidProc[p].result = "Accepted"
    /\ bidProc[p].sawRow
    /\ Cardinality(bids) = 1
    /\ \A b \in bids : b.amount = bidProc[p].amount /\ b.amount >= 3 * Unit

\* the step in which call p returns or throws
Returns(p) == bidProc[p].pc # "done" /\ bidProc'[p].pc = "done"
\* the step in which call p runs its pre-check or its in-transaction checks
Checks(p) == bidProc[p].pc \in {"idle", "done", "tx"} /\ bidProc'[p] # bidProc[p]
Rejections == {"AuctionEnded", "SelfBid", "TooLow"}

\* C11: a placeBid whose pre-check or whose in-transaction check runs when
\* endTime is not after the clock ends as AuctionEnded, whatever the amount,
\* and leaves the bids as they were.
C11_RejectedAfterEnd ==
  [][\A p \in Procs, a \in Auctions :
       (Checks(p) /\ bidProc'[p].auctionId = a /\ auctions[a].exists
          /\ now >= auctions[a].endTime)
         => (bidProc'[p].result = "AuctionEnded" /\ bids' = bids)]_vars

\* C11 witness: a call that passed the pre-check was rejected inside the
\* transaction as AuctionEnded, with an amount the price would have allowed
C11_Witness ==
  \E p \in Procs :
    /\ bidProc[p].result = "AuctionEnded" /\ bidProc[p].inTx
    /\ now >= auctions[bidProc[p].auctionId].endTime
    /\ isValidBidAmount(bidProc[p].amount, CurrentPrice(bidProc[p].auctionId))

\* C12: every rejection (auction ended, self-bid, price too low) carries
\* the auction's current price.
C12_RejectionCarriesPrice ==
  \A p \in Procs :
    (bidProc[p].pc = "done" /\ bidProc[p].result \in Rejections) =>
      bidProc[p].price = CurrentPrice(bidProc[p].auctionId)

\* C13: with no concurrent writer, a placeBid that is not rejected for a
\* missing or ended auction or a self-bid is accepted exactly if its amount
\* is at least the current price plus the increment; an accepted bid is the
\* bidder's row afterwards, a rejected one leaves the rows unchanged.
C13_AcceptedIffIncrement ==
  [][\A p \in Procs :
       (Returns(p) /\ bidProc'[p].result \notin {"NotFound", "AuctionEnded", "SelfBid"})
         => LET a == bidProc'[p].auctionId
                amt == bidProc'[p].amount
            IN /\ bidProc'[p].result \in {"Accepted", "TooLow"}
               /\ bidProc'[p].result = "Accepted" <=>
                    amt >= CurrentPrice(a) + minIncrement * Unit
               /\ bidProc'[p].result = "Accepted" =>
                    /\ \E b \in bids' : b.auctionId = a /\ b.amount = amt
                    /\ calculateCurrentPrice(auctions[a].startingPrice,
                         {b \in bids' : b.auctionId = a}) = amt
               /\ bidProc'[p].result = "TooLow" => bids' = bids]_vars

\* C13 witness: a bid above the current price by less than the increment
\* was rejected after an earlier bid was accepted
C13_Witness ==
  \E p \in Procs :
    /\ bidProc[p].result = "TooLow"
    /\ bidProc[p].amount > CurrentPrice(bidProc[p].auctionId)
    /\ bids # {}

(* ---------------------- claims on the scheduler ----------------------- *)
Executing(w, a) == sweep[w].pc # "idle" /\ CurJob(w).auctionId = a
NotExecuting(a) == \A w \in Sweepers : ~Executing(w, a)
BiddersOf(a) == {b.bidderId : b \in BidsOf(a)}
Executed(a) == jobs[a].exists /\ jobs[a].status = "EXECUTED"

\* C4: sweeps that follow each other take a job out of PENDING at most
\* once per arming, and never begin executeJob on, or write, a job that is
\* EXECUTED.
C4_OneTransitionPerArming ==
  \A a \in Auctions :
    hist[a].outs <= 1 /\ ~hist[a].reproc /\ ~hist[a].rewritten

\* C4 witness: the job left PENDING once, is EXECUTED, and a later sweep
\* passed over it
C4_Witness ==
  \E a \in Auctions :
    Executed(a) /\ hist[a].outs = 1 /\ hist[a].skipped /\ hist[a].settles = 1

\* C5: with sweeps that overlap, createNotificationsForAuction is called at
\* most once per arming of a job.
C5_SettledOncePerArming ==
  \A a \in Auctions : hist[a].settles <= 1

\* C6: a job with bids is never left EXECUTED while a bidder of its auction
\* has no notification, whenever no executeJob for it is running (after a
\* restart in particular).
C6_ExecutedMeansSettled ==
  \A a \in Auctions :
    (Executed(a) /\ NotExecuting(a)) =>
      \A u \in BiddersOf(a) : NotifCount(u, a) >= 1

\* C7: every auction that exists is settled in the end: it is deleted or
\* its job leaves PENDING.
C7_EveryAuctionSettles ==
  \A a \in Auctions :
    auctions[a].exists ~>
      (~auctions[a].exists \/ (jobs[a].exists /\ jobs[a].status # "PENDING"))

\* the notifications one complete run writes for the sorted bids f
Outcome(a, f) ==
  {NotifRow(Recipients(f)[k].userId, a, Recipients(f)[k].price) : k \in 1..Len(f)}

\* C8: once the job of an auction with bids is EXECUTED (and no executeJob
\* for it is running), the store holds exactly one notification per bidder:
\* one with the highest amount as price for a bidder of that amount, null
\* for all others.
C8_OneWinnerOthersNull ==
  \A a \in Auctions :
    (Executed(a) /\ NotExecuting(a) /\ BidsOf(a) # {}) =>
      /\ \A u \in BiddersOf(a) : NotifCount(u, a) = 1
      /\ \E f \in SortedBids(BidsOf(a)) : NotifsOf(a) = Outcome(a, f)

\* C9: every run of createNotificationsForAuction that ends, a second run
\* on the same bid set included, leaves the store as one complete run
\* leaves it (one row per bidder, one winner), and across the runs no
\* bidder's outcome changes: at most one user is ever written as winner.
C9_RerunIdempotent ==
  \A a \in Auctions :
    /\ Cardinality(hist[a].winners) <= 1
    /\ hist[a].ran =>
         /\ \A u \in BiddersOf(a) : NotifCount(u, a) = 1
         /\ \E f \in SortedBids(BidsOf(a)) : NotifsOf(a) = Outcome(a, f)

\* C10: the store holds at most one notification per (userId, auctionId).
C10_OneNotificationPerPair ==
  \A u \in Users, a \in Auctions : NotifCount(u, a) <= 1

(* ------------------ claims on failures and ties ----------------------- *)
\* C14: a job that was executed for an auction without bids is EXECUTED
\* with executedAt set, and the auction has no notification and was never
\* handed to createNotificationsForAuction.
C14_NoBidsExecuted ==
  \A a \in Auctions :
    (jobs[a].exists /\ jobs[a].status # "PENDING" /\ BidsOf(a) = {}) =>
      /\ jobs[a].status = "EXECUTED"
      /\ jobs[a].executedAt # NULL /\ jobs[a].executedAt >= jobs[a].scheduledAt
      /\ NotifsOf(a) = {}
      /\ hist[a].settles = 0

\* C14 witness: the job of an auction without bids was executed
C14_Witness ==
  \E a \in Auctions :
    BidsOf(a) = {} /\ Executed(a) /\ hist[a].outs = 1 /\ NotExecuting(a)

\* C15: no sweep begins executeJob on a job that is FAILED (or EXECUTED),
\* and a FAILED job's row changes only by the job write of updateAuction
\* or by the deletion of its auction.
C15_FailedNotRetried ==
  /\ [](\A a \in DOMAIN hist : ~hist[a].reproc)
  /\ [][\A a \in DOMAIN jobs :
          (jobs[a].exists /\ jobs[a].status = "FAILED" /\ jobs'[a] # jobs[a])
            => \/ \E x \in Updaters : upd[x].pc = "job" /\ upd[x].auctionId = a
               \/ ~auctions'[a].exists]_vars

\* C15 witness: a FAILED job with its error recorded was passed over by a
\* later sweep
C15_Witness ==
  \E a \in DOMAIN jobs :
    /\ jobs[a].exists /\ jobs[a].status = "FAILED" /\ jobs[a].error # ""
    /\ hist[a].skipped

\* C16: no sweep ends before it has executed every job it selected.
C16_SweepNotStopped ==
  \A a \in DOMAIN hist : ~hist[a].dropped

\* C17: no run of createNotificationsForAuction ends without having called
\* createNotification for every bidder of the auction, whichever calls
\* threw.
C17_EveryRecipientTried ==
  \A a \in DOMAIN hist : ~hist[a].missed

\* C17 witness: the run ended, the winner's createNotification threw and
\* the loser's notification was written
C17_Witness ==
  \E a \in DOMAIN hist : \E u, v \in BiddersOf(a) :
    /\ hist[a].ran /\ hist[a].errors
    /\ NotifCount(u, a) = 0
    /\ NotifRow(v, a, NULL) \in NotifsOf(a)

\* C18: a job whose settlement met a failing notification write ends as
\* FAILED with the error recorded.
C18_WriteErrorFailsJob ==
  \A a \in DOMAIN jobs :
    (jobs[a].exists /\ hist[a].ran /\ hist[a].errors
       /\ jobs[a].status # "PENDING" /\ NotExecuting(a)) =>
      (jobs[a].status = "FAILED" /\ jobs[a].error # "")

\* C19: the notification with a price goes to a bidder of the highest
\* amount whose bid is the earliest among the bids of that amount.
C19_EarliestTopBidWins ==
  \A a \in DOMAIN auctions : \A r \in NotifsOf(a) :
    r.price # NULL =>
      \E b \in BidsOf(a) :
        /\ b.bidderId = r.userId
        /\ \A c \in BidsOf(a) :
             c.amount < b.amount \/ (c.amount = b.amount /\ c.createdAt >= b.createdAt)

\* C20: no placeBid commits a bid on an auction whose bids a sweep has read
\* for settlement: at the commit no sweep holds the auction's job and the
\* job is PENDING.
C20_FrozenBidSet ==
  [][\A p \in Procs :
       (Returns(p) /\ bidProc'[p].result = "Accepted")
         => LET a == bidProc'[p].auctionId
            IN /\ \A w \in Sweepers : ~Executing(w, a)
               /\ jobs[a].exists => jobs[a].status = "PENDING"]_vars

(* ------------------ claims on deletion and re-arming ------------------ *)
\* C21: an auction deleted while its job was not EXECUTED has no job row
\* and no notification, whatever a sweep that had loaded the job does
\* afterwards.
C21_DeletedJobCancelled ==
  \A a \in DOMAIN auctions :
    (~auctions[a].exists /\ hist[a].deleted \in {"PENDING", "FAILED", "none"}) =>
      (~jobs[a].exists /\ NotifsOf(a) = {})

\* C21 witness: the auction was deleted with its job PENDING while a sweep
\* held the job, and that sweep's createNotification has run and thrown
C21_Witness ==
  \E a \in DOMAIN auctions, w \in Sweepers :
    /\ ~auctions[a].exists /\ hist[a].deleted = "PENDING"
    /\ Executing(w, a) /\ sweep[w].errs # {}

\* C22: an auction deleted after its job was EXECUTED has no notification
\* and no job row, and none is written afterwards.
C22_DeletedAfterExecuted ==
  \A a \in DOMAIN auctions :
    (~auctions[a].exists /\ hist[a].deleted = "EXECUTED") =>
      (NotifsOf(a) = {} /\ ~jobs[a].exists)

\* C22 witness: the auction was settled with a winner notification and
\* deleted after its job was EXECUTED
C22_Witness ==
  \E a \in DOMAIN auctions :
    /\ ~auctions[a].exists /\ hist[a].deleted = "EXECUTED"
    /\ hist[a].winners # {} /\ hist[a].ran

\* C23: an updateAuction call that changes endTime to T and ends leaves the
\* auction's job with scheduledAt = T and status PENDING, and whenever no
\* updateAuction call is in flight the job's scheduledAt is the auction's
\* endTime, also after two overlapping calls with different endTimes.
C23_JobFollowsEndTime ==
  /\ []((\A x \in Updaters : upd[x].pc = "idle") =>
          \A a \in Auctions :
            auctions[a].exists =>
              (jobs[a].exists /\ jobs[a].scheduledAt = auctions[a].endTime))
  /\ [][\A x \in Updaters :
          (upd[x].pc # "idle" /\ upd'[x].pc = "idle" /\ upd[x].changed) =>
            /\ jobs'[upd[x].auctionId].exists
            /\ jobs'[upd[x].auctionId].scheduledAt = upd[x].endTime
            /\ jobs'[upd[x].auctionId].status = "PENDING"]_vars

(* ------------------- claims on the notification stream ---------------- *)
\* the client's request is registered for user u and its response takes
\* writes
OpenChannel(c, u) ==
  stream[c].pc \in {"catchup", "live"} /\ stream[c].userId = u /\ stream[c].open

\* C24: the broadcast that follows a successful notification.create writes
\* the notification exactly once to every open channel registered for its
\* user and to no other channel; it raises no error, whether or not a
\* channel is open, and the row is in the store for getUserNotifications.
C24_BroadcastOncePerChannel ==
  [][\A w \in Sweepers :
       (sweep[w].pc = "create" /\ notifications' # notifications) =>
         LET u == CurRecipient(w).userId
             n == NotifRow(u, CurJob(w).auctionId, CurRecipient(w).price)
         IN /\ \A c \in Clients :
                 Copies(stream'[c].log, n) =
                   Copies(stream[c].log, n) + (IF OpenChannel(c, u) THEN 1 ELSE 0)
            /\ Copies(notifications', n) >= 1
            /\ sweep'[w].errs = sweep[w].errs]_vars

\* C24 witness: two streams of one user were both live when the user's
\* notification was broadcast, and each holds it once
C24_Witness ==
  \E u \in Users, r \in DOMAIN notifications :
    /\ r.userId = u
    /\ \A c \in Clients :
         /\ OpenChannel(c, u)
         /\ ~stream[c].lastEventId
         /\ Copies(stream[c].log, r) = 1

\* C25: no client stream is written the same notification twice, catch-up
\* and live broadcast together.
C25_NoDuplicateOnStream ==
  \A c \in Clients : \A r \in DOMAIN stream[c].log : stream[c].log[r] <= 1

(* ---------------------- claims on placeBid's reach -------------------- *)
\* the steps of placeBid call p
BidStep(p) == bidProc'[p] # bidProc[p]

\* C26: a step of a placeBid call, accepted or rejected, leaves the auction
\* rows, the jobs, the notifications, the SSE registry and the streams as
\* they are, and the only Bid rows it adds, changes or removes belong to
\* the call's bidder on the call's auction.
C26_OnlyOwnBidRow ==
  [][\A p \in Procs :
       BidStep(p) =>
         /\ auctions' = auctions /\ jobs' = jobs /\ notifications' = notifications
         /\ connections' = connections /\ connKeys' = connKeys
         /\ stream' = stream
         /\ \A b \in (bids \ bids') \cup (bids' \ bids) :
              b.bidderId = bidProc[p].bidderId /\ b.auctionId = bidProc[p].auctionId]_vars

\* C26 witness: a bid was accepted while another bidder holds a row, the
\* job is armed and a client is registered on the stream
C26_Witness ==
  /\ \E p \in Procs : bidProc[p].result = "Accepted"
  /\ \E b1, b2 \in bids : b1.bidderId # b2.bidderId
  /\ \A a \in Auctions : jobs[a].exists
  /\ connections["u1"] # <<>>

\* C27: a placeBid call of the auction's seller never gets past the
\* pre-check and no Bid row of the seller exists; a call that finds no
\* auction ends NotFound and writes nothing, and no Bid row of a missing
\* auction exists.
C27_SellerAndMissingRejected ==
  /\ [](/\ \A p \in Procs :
            bidProc[p].pc \in {"tx", "upsert", "commit"} => bidProc[p].bidderId # Seller
        /\ \A b \in bids : b.bidderId # Seller /\ auctions[b.auctionId].exists)
  /\ [][\A p \in Procs :
          (BidStep(p) /\ bidProc[p].pc \in {"idle", "done"}
                      /\ \A a \in Auctions : ~auctions[a].exists) =>
            (bidProc'[p].result = "NotFound" /\ bids' = bids)]_vars

\* C27 witness: one call ended as a bid on the caller's own auction,
\* another found no auction
C27_Witness ==
  \E p, q \in Procs :
    bidProc[p].result = "SelfBid" /\ bidProc[q].result = "NotFound" /\ ~bidProc[q].inTx

\* C30: an accepted bid of a bidder who already holds a row on the auction
\* leaves that row with the new amount and with the time of the new bid.
C30_RebidOverwritesBoth ==
  [][\A p \in Procs :
       (/\ bidProc[p].pc = "commit"
        /\ bidProc'[p].result = "Accepted"
        /\ HasRow(bids, bidProc[p].auctionId, bidProc[p].bidderId)) =>
         \A b \in bids' :
           (b.auctionId = bidProc[p].auctionId /\ b.bidderId = bidProc[p].bidderId) =>
             (b.amount = bidProc[p].amount /\ b.createdAt = now)]_vars

(* ------------------------ claims on the sweep ------------------------- *)
\* C28: the list a sweep starts with holds each job that is PENDING with
\* scheduledAt at or before the sweep's time once, no other job, in
\* ascending scheduledAt order; the sweep executes the head of its list and
\* the list only loses its head or is dropped.
C28_DueJobsInOrder ==
  [][\A w \in Sweepers :
       /\ (sweep[w].pc = "idle" /\ sweep'[w].pc # "idle") =>
            LET q == sweep'[w].queue
            IN /\ {q[k].auctionId : k \in 1..Len(q)} =
                    {a \in DOMAIN jobs : /\ jobs[a].exists
                                         /\ jobs[a].status = "PENDING"
                                         /\ jobs[a].scheduledAt <= now}
               /\ \A j, k \in 1..Len(q) :
                    j < k => /\ q[j].auctionId # q[k].auctionId
                             /\ jobs[q[j].auctionId].scheduledAt
                                  <= jobs[q[k].auctionId].scheduledAt
       /\ sweep[w].pc # "idle" =>
            \/ sweep'[w].queue = sweep[w].queue
            \/ sweep'[w].queue = Tail(sweep[w].queue)
            \/ sweep'[w] = IdleSweep]_vars

\* C28 witness: a sweep holds two jobs, the earlier scheduledAt first
C28_Witness ==
  \E w \in Sweepers :
    /\ Len(sweep[w].queue) = 2
    /\ jobs[sweep[w].queue[1].auctionId].exists
    /\ jobs[sweep[w].queue[2].auctionId].exists
    /\ jobs[sweep[w].queue[1].auctionId].scheduledAt
         < jobs[sweep[w].queue[2].auctionId].scheduledAt

\* C29: every step of executeJob that settles an auction (a
\* createNotification await) or writes its job's status is taken while the
\* auction is closed, endTime <= now, also when the seller moved endTime
\* after the sweep had loaded its list.
C29_SettlesOnlyClosed ==
  [][\A w \in Sweepers :
       (/\ sweep[w].pc \in {"delete", "create", "mark"}
        /\ sweep'[w] # sweep[w]
        /\ auctions[CurJob(w).auctionId].exists) =>
         auctions[CurJob(w).auctionId].endTime <= now]_vars

(* ------------------ claims on pushes, clears and deletes -------------- *)
\* a connection of user u is marked not connected by this step: a write to
\* it threw
WriteThrew(u) ==
  \E i \in DOMAIN connections[u] :
    /\ i \in DOMAIN connections'[u]
    /\ connections[u][i].isConnected
    /\ ~connections'[u][i].isConnected

\* C31: a createNotification whose push throws on a channel keeps the row
\* it created, records no error for the recipient and lets the run go on
\* to the next recipient or to the end of the job; no job of a run whose
\* pushes threw ends FAILED.
C31_PushFailureHarmless ==
  /\ [][\A w \in Sweepers :
          (sweep[w].pc = "create" /\ sweep'[w] # sweep[w]
             /\ WriteThrew(CurRecipient(w).userId)) =>
            LET a == CurJob(w).auctionId
                u == CurRecipient(w).userId
            IN /\ Copies(notifications', NotifRow(u, a, CurRecipient(w).price)) >= 1
               /\ sweep'[w].errs = sweep[w].errs
               /\ \/ /\ sweep'[w].queue = sweep[w].queue
                     /\ sweep'[w].pc = IF sweep[w].i < Len(CurJob(w).recipients)
                                       THEN "delete" ELSE "mark"
                     /\ sweep'[w].i = IF sweep[w].i < Len(CurJob(w).recipients)
                                      THEN sweep[w].i + 1 ELSE sweep[w].i
                  \/ /\ variant = "markThenSettle"
                     /\ sweep[w].i = Len(CurJob(w).recipients)
                     /\ sweep'[w].queue = Tail(sweep[w].queue)
                     /\ jobs[a].status = "EXECUTED"]_vars
  /\ [](\A a \in DOMAIN jobs : jobs[a].exists => jobs[a].status # "FAILED")

\* C31 witness: the push to the winner's channel threw, and the job is
\* EXECUTED with the winner's and the loser's notification in the store
C31_Witness ==
  \E a \in DOMAIN jobs, u, v \in Users :
    /\ u # v
    /\ \E i \in DOMAIN connections[u] : ~connections[u][i].isConnected
    /\ jobs[a].exists /\ jobs[a].status = "EXECUTED"
    /\ \A w \in Sweepers : sweep[w].pc = "idle"
    /\ \E r \in DOMAIN notifications :
         r.userId = u /\ r.auctionId = a /\ r.price # NULL
    /\ \E r \in DOMAIN notifications :
         r.userId = v /\ r.auctionId = a /\ r.price = NULL

\* C32: a step that removes notifications outside a settlement is the clear
\* of one user: afterwards getUserNotifications of that user is empty with
\* total 0, every other user's notifications are as before, and no Bid row
\* and no job changed.
C32_ClearOnlyOwnNotifications ==
  [][(sweep' = sweep /\ notifications' # notifications) =>
       /\ bids' = bids /\ jobs' = jobs /\ auctions' = auctions
       /\ \E u \in Users :
            /\ getUserNotifications(notifications', u).total = 0
            /\ getUserNotifications(notifications', u).notifications = EmptyBag
            /\ \A v \in Users \ {u} :
                 getUserNotifications(notifications', v) =
                   getUserNotifications(notifications, v)]_vars

\* C32 witness: the winner cleared their notification while the loser's
\* stays, the job being EXECUTED
C32_Witness ==
  \E a \in DOMAIN jobs :
    /\ jobs[a].exists /\ jobs[a].status = "EXECUTED"
    /\ hist[a].winners # {}
    /\ \A u \in hist[a].winners : getUserNotifications(notifications, u).total = 0
    /\ \E v \in Users : getUserNotifications(notifications, v).total = 1

C34_DeleteCompletes ==
  \A a \in DOMAIN hist :
    (hist[a].deleted # "no" /\ ~auctions[a].exists) =>
      /\ ~hist[a].deleteThrew
      /\ BidsOf(a) = {} /\ ~jobs[a].exists /\ NotifsOf(a) = {}

\* C35: whenever no createAuction, updateAuction or deleteAuction call is
\* in flight, an auction exists exactly if its job exists (the job table
\* holds at most one row per auction by scheduled_jobs_auctionId_key).
C35_JobIffAuction ==
  (\A x \in Updaters : upd[x].pc = "idle") =>
    \A a \in DOMAIN auctions : auctions[a].exists <=> jobs[a].exists

\* C36: no step of any interleaving of placeBid calls lowers the current
\* price of an auction (the maximum amount over its Bid rows, else the
\* starting price).
C36_PriceNeverDecreases ==
  [][\A a \in Auctions :
       (auctions[a].exists /\ auctions'[a].exists) =>
         calculateCurrentPrice(auctions[a].startingPrice,
                               {b \in bids' : b.auctionId = a})
           >= calculateCurrentPrice(auctions[a].startingPrice,
                                    {b \in bids : b.auctionId = a})]_vars

\* C37: a createNotification call that throws leaves the store as it was
\* before the call: when its create fails after its deleteMany removed a
\* notification of the pair, that notification is still in the store.
C37_FailedCreateKeepsPrior ==
  [][\A w \in Sweepers :
       (/\ sweep[w].pc = "create"
        /\ sweep'[w] # sweep[w]
        /\ notifications' = notifications
        /\ auctions[CurJob(w).auctionId].exists
        /\ sweep[w].prior)
       => NotifCount(CurRecipient(w).userId, CurJob(w).auctionId) >= 1]_vars

\* C38: every notification event written to a channel belongs to the user
\* the channel was registered for, and getUserNotifications(u) returns only
\* rows whose userId is u.
C38_NoCrossUserDelivery ==
  /\ \A c \in Clients :
       \A r \in DOMAIN stream[c].log : r.userId = stream[c].userId
  /\ \A u \in Users :
       \A r \in DOMAIN getUserNotifications(notifications, u).notifications :
         r.userId = u

\* u1's notification was created and broadcast while c1 is a live channel
\* of u2 that has received nothing
C38_Witness ==
  /\ stream["c1"].pc = "live" /\ stream["c1"].open
  /\ stream["c1"].userId = "u2" /\ ~stream["c1"].lastEventId
  /\ \E i \in DOMAIN connections["u2"] :
       connections["u2"][i].response = "c1" /\ connections["u2"][i].isConnected
  /\ stream["c1"].log = EmptyBag
  /\ sweep["w1"].pc = "delete" /\ sweep["w1"].i = 2
  /\ CurJob("w1").recipients[1].userId = "u1"
  /\ NotifCount("u1", "a1") = 1

====
